---- MODULE Spec2Model ----
(***************************************************************************)
(* LDTPDynamicKeywords (src/src/LDTPLibrary/keywords/keywords.py): the     *)
(* dynamic keyword dispatcher.  One run_keyword call marshals its          *)
(* arguments, swaps the process streams for in-memory sinks, invokes the   *)
(* keyword, classifies the outcome into a result envelope and restores     *)
(* the streams.  Between calls the discovery methods and _log may be       *)
(* called; SpecConc runs two threads through run_keyword.                  *)
(*                                                                         *)
(* Texts are Python 2 texts: a flag u (unicode or byte str) and the        *)
(* sequence of character codes.  Python values are records of one shape    *)
(* (tag, n, t, keys, items, x) so that every value compares with every     *)
(* other one.                                                              *)
(***************************************************************************)
EXTENDS Integers, Sequences, FiniteSets, TLC

\* ------------------------------------------------------------------ bounds
\* Number of run_keyword calls one behaviour makes.
MaxCalls == 2
MaxLogs == 1

\* ------------------------------------------------------------------- texts
Str(s) == [u |-> FALSE, s |-> s]
Uni(s) == [u |-> TRUE, s |-> s]
EmptyStr == Str(<<>>)

\* BINARY = re.compile('[\x00-\x08\x0B\x0C\x0E-\x1F]'); BINARY.search(s)
BINARY(s) == \E i \in 1..Len(s) : s[i] \in (0..8) \cup {11, 12} \cup (14..31)

\* NON_ASCII = re.compile('[\x80-\xff]'); NON_ASCII.search(s)
NON_ASCII(s) == \E i \in 1..Len(s) : s[i] \in 128..255

StartsWith(s, p) == Len(s) >= Len(p) /\ SubSeq(s, 1, Len(p)) = p
EndsWith(s, p) == Len(s) >= Len(p) /\ SubSeq(s, Len(s) - Len(p) + 1, Len(s)) = p

\* The level markers _restore_std_streams recognises at the start of stderr:
\* '*TRACE*', '*DEBUG*', '*INFO*', '*HTML*', '*WARN*'.
LevelMarkers ==
    { <<42,84,82,65,67,69,42>>, <<42,68,69,66,85,71,42>>, <<42,73,78,70,79,42>>,
      <<42,72,84,77,76,42>>, <<42,87,65,82,78,42>> }
InfoPrefix == <<42,73,78,70,79,42,32>>          \* '*INFO* '
Newline == <<10>>                               \* '\n'

\* exc_type.__name__
TypeName(type) ==
    CASE type = "RuntimeError" -> <<82,117,110,116,105,109,101,69,114,114,111,114>>
      [] type = "NotImplementedError" ->
            <<78,111,116,73,109,112,108,101,109,101,110,116,101,100,69,114,114,111,114>>
      [] type = "AssertionError" -> <<65,115,115,101,114,116,105,111,110,69,114,114,111,114>>
      [] type = "Exception" -> <<69,120,99,101,112,116,105,111,110>>
      [] type = "ValueError" -> <<86,97,108,117,101,69,114,114,111,114>>
      [] type = "TypeError" -> <<84,121,112,101,69,114,114,111,114>>
      [] type = "SystemExit" -> <<83,121,115,116,101,109,69,120,105,116>>
      [] type = "KeyboardInterrupt" ->
            <<75,101,121,98,111,97,114,100,73,110,116,101,114,114,117,112,116>>
      [] type = "UnicodeDecodeError" ->
            <<85,110,105,99,111,100,101,68,101,99,111,100,101,69,114,114,111,114>>
      [] OTHER -> <<>>

\* ------------------------------------------------------- raised conditions
\* A raised condition: its type, the text it was constructed with (empty
\* when it has no args) and the ROBOT_* marker attributes it carries.
Exc(type, msg, cont, exit, suppress) ==
    [type |-> type, msg |-> msg, cont |-> cont, exit |-> exit, suppress |-> suppress]
NoExc == Exc("", EmptyStr, FALSE, FALSE, FALSE)
Plain(type, msg) == Exc(type, msg, FALSE, FALSE, FALSE)

\* _generic_exceptions = (AssertionError, RuntimeError, Exception)
_generic_exceptions == {"AssertionError", "RuntimeError", "Exception"}
\* _fatal_exceptions = (SystemExit, KeyboardInterrupt)
_fatal_exceptions == {"SystemExit", "KeyboardInterrupt"}

\* The clause `except RuntimeError:` catches RuntimeError and its subclasses
\* (NotImplementedError derives from RuntimeError).
IsRuntimeError(type) == type \in {"RuntimeError", "NotImplementedError"}

\* ----------------------------------------------------------- Python values
Val(tag, n, t, keys, items, x) ==
    [tag |-> tag, n |-> n, t |-> t, keys |-> keys, items |-> items, x |-> x]
NoneV == Val("none", 0, EmptyStr, <<>>, <<>>, NoExc)
IntV(n) == Val("int", n, EmptyStr, <<>>, <<>>, NoExc)
BoolV(b) == Val("bool", IF b THEN 1 ELSE 0, EmptyStr, <<>>, <<>>, NoExc)
TextV(t) == Val("text", 0, t, <<>>, <<>>, NoExc)
\* xmlrpclib.Binary(data): data is a byte str.
BinaryV(s) == Val("binary", 0, Str(s), <<>>, <<>>, NoExc)
MapV(keys, items) == Val("map", 0, EmptyStr, keys, items, NoExc)
\* An iterable that yields items and then, when x is a condition, raises it.
ListV(items, x) == Val("list", 0, EmptyStr, <<>>, items, x)
\* Any other object: unicode(obj) is t, or raises x when x is a condition.
ObjV(t, x) == Val("obj", 0, t, <<>>, <<>>, x)

\* The outcome of evaluating an expression: a value, or a raised condition.
Ret(v) == [raised |-> FALSE, v |-> v, x |-> NoExc]
Raise(x) == [raised |-> TRUE, v |-> NoneV, x |-> x]

\* Python's == on values: texts compare by their characters (u'' == ''), a
\* Binary compares its data (Binary.__cmp__), numbers by value (False == 0),
\* and a text or Binary never equals a number, a list or a dict.
PyEq(a, b) ==
    IF a.tag \in {"text", "binary"} /\ b.tag \in {"text", "binary"} THEN a.t.s = b.t.s
    ELSE IF a.tag \in {"int", "bool"} /\ b.tag \in {"int", "bool"} THEN a.n = b.n
    ELSE a = b

\* ------------------------------------------------------------------- state
VARIABLES
    platform,       \* sys.platform
    sys_stdout,     \* sys.stdout: 0 is sys.__stdout__, i > 0 is the StringIO sinks[i]
    sys_stderr,     \* sys.stderr: 0 is sys.__stderr__, i > 0 is the StringIO sinks[i]
    sinks,          \* the StringIO objects created so far: [buf, closed]
    pc,             \* position of the caller inside run_keyword
    name,           \* run_keyword's name
    args,           \* run_keyword's args, kwargs after _handle_binary_args
    result,         \* run_keyword's result envelope (a dict)
    return_value,   \* run_keyword's return_value
    exc,            \* sys.exc_info(): the condition being handled or propagating
    ncalls,         \* number of run_keyword calls started
    prior,          \* history: <<sys.stdout, sys.stderr>> when the call began
    wrote,          \* history: <<stdout text, stderr text>> the keyword wrote
    returned,       \* history: the keyword of this call returned normally
    given,          \* history: the args, kwargs the call was given, while they are live
    stale,          \* history: the stream installed when the call began held text
    overlap,        \* history: another call was in progress during this call
    other,          \* the locals of the thread that is not running
    reply,          \* what the last discovery call returned
    nlogs           \* number of _log calls made since the last run_keyword call

vars == <<platform, sys_stdout, sys_stderr, sinks, pc, name, args, result,
          return_value, exc, ncalls, prior, wrote, returned, given, stale, overlap,
          other, reply, nlogs>>

\* ------------------------------------------------------- value marshaller
\* str(n) for an integer: the decimal digits, '-' first when negative.
RECURSIVE Digits(_)
Digits(n) == IF n < 10 THEN <<48 + n>> ELSE Digits(n \div 10) \o <<48 + (n % 10)>>
IntText(n) == IF n < 0 THEN <<45>> \o Digits(0 - n) ELSE Digits(n)

\* unicode(item) for an item that is not a basestring.
PyUnicode(item) ==
    CASE item.tag = "int" -> Ret(TextV(Uni(IntText(item.n))))
      [] item.tag = "bool" ->
            Ret(TextV(Uni(IF item.n = 1 THEN <<84,114,117,101>> ELSE <<70,97,108,115,101>>)))
      [] OTHER -> IF item.x.type # "" THEN Raise(item.x) ELSE Ret(TextV(Uni(item.t.s)))

\* "Cannot represent %r as binary." % result; the repr of the text is ASCII
\* and is written here as the word value.
CannotRepresent ==
    Str(<<67,97,110,110,111,116,32,114,101,112,114,101,115,101,110,116,32,118,97,
          108,117,101,32,97,115,32,98,105,110,97,114,121,46>>)

_contains_binary(text) ==
    \/ BINARY(text.s)
    \/ (~text.u /\ platform # "cli" /\ NON_ASCII(text.s))

\* str(result) raises UnicodeEncodeError for a unicode text with a non-ASCII
\* character, except where str is the unicode type (sys.platform 'cli'); the
\* Binary then holds the bytes.
_handle_binary_result(text) ==
    IF ~_contains_binary(text) THEN Ret(TextV(text))
    ELSE IF platform # "cli" /\ text.u /\ \E i \in 1..Len(text.s) : text.s[i] > 127
         THEN Raise(Plain("ValueError", CannotRepresent))
         ELSE Ret(BinaryV(text.s))

\* _str that returns the text without the binary check.
StrWithoutBinaryCheck(item, handle_binary) ==
    IF item.tag = "none" THEN Ret(TextV(EmptyStr))
    ELSE IF item.tag = "text" THEN Ret(item) ELSE PyUnicode(item)

_str(item, handle_binary) ==
    IF item.tag = "none" THEN Ret(TextV(EmptyStr))
    ELSE LET u == IF item.tag = "text" THEN Ret(item) ELSE PyUnicode(item)
         IN IF u.raised THEN u
            ELSE IF handle_binary THEN _handle_binary_result(u.v.t) ELSE u

\* dict([...]) of the marshalled pairs: a later pair replaces an earlier one
\* with an equal key; a Binary key is an unhashable instance.
Unhashable ==
    Str(<<117,110,104,97,115,104,97,98,108,101,32,105,110,115,116,97,110,99,101>>)
RECURSIVE DictOf(_, _, _, _)
DictOf(ks, vs, keys, items) ==
    IF ks = <<>> THEN Ret(MapV(keys, items))
    ELSE IF Head(ks).tag = "binary" THEN Raise(Plain("TypeError", Unhashable))
    ELSE LET same == {i \in 1..Len(keys) : keys[i].t.s = Head(ks).t.s}
         IN IF same = {}
            THEN DictOf(Tail(ks), Tail(vs), Append(keys, Head(ks)), Append(items, Head(vs)))
            ELSE DictOf(Tail(ks), Tail(vs), keys,
                        [i \in 1..Len(items) |-> IF i \in same THEN Head(vs) ELSE items[i]])

RECURSIVE _handle_return_value(_)
RECURSIVE MarshalPairs(_, _, _, _)
RECURSIVE MarshalItems(_, _, _)

\* [(self._str(key), self._handle_return_value(value)) for key, value in ret.items()]
MarshalPairs(ks, vs, outk, outv) ==
    IF ks = <<>> THEN DictOf(outk, outv, <<>>, <<>>)
    ELSE LET k == _str(Head(ks), TRUE)
         IN IF k.raised THEN k
            ELSE LET v == _handle_return_value(Head(vs))
                 IN IF v.raised THEN v
                    ELSE MarshalPairs(Tail(ks), Tail(vs), Append(outk, k.v), Append(outv, v.v))

\* [self._handle_return_value(item) for item in ret], ending with the
\* condition x the iteration raises, if any.
MarshalItems(items, x, out) ==
    IF items = <<>>
    THEN IF x.type # "" THEN Raise(x) ELSE Ret(ListV(out, NoExc))
    ELSE LET v == _handle_return_value(Head(items))
         IN IF v.raised THEN v ELSE MarshalItems(Tail(items), x, Append(out, v.v))

\* iter(ret) of a value that is not iterable raises TypeError.
NotIterable == Plain("TypeError", Str(<<>>))

_handle_return_value(ret) ==
    IF ret.tag = "text" THEN _handle_binary_result(ret.t)
    ELSE IF ret.tag \in {"int", "bool", "float"} THEN Ret(ret)
    ELSE IF ret.tag = "map" THEN MarshalPairs(ret.keys, ret.items, <<>>, <<>>)
    ELSE LET l == IF ret.tag = "list" THEN MarshalItems(ret.items, ret.x, <<>>)
                  ELSE Raise(NotIterable)
         IN IF l.raised /\ l.x.type = "TypeError" THEN _str(ret, TRUE) ELSE l

\* _handle_binary_arg that hands a Binary argument on as it came.
HandleBinaryArgKeepsBinary(arg) == arg

\* _handle_binary_arg: a Binary argument becomes its data.
_handle_binary_arg(arg) == IF arg.tag = "binary" THEN TextV(arg.t) ELSE arg

\* kwargs is a sequence of [k, v] pairs.
_handle_binary_args(a, kw) ==
    [args |-> [i \in 1..Len(a) |-> _handle_binary_arg(a[i])],
     kwargs |-> [i \in 1..Len(kw) |-> [k |-> kw[i].k, v |-> _handle_binary_arg(kw[i].v)]]]

\* -------------------------------------------------------- error classifier
\* unicode(value) is the condition's text; for a byte text with non-ASCII
\* bytes it raises UnicodeError and the args are joined instead (one arg:
\* the text itself, still a byte str).
_get_message_from_exception(value) ==
    LET msg == IF ~value.msg.u /\ NON_ASCII(value.msg.s)
               THEN value.msg
               ELSE Uni(value.msg.s)
    IN _handle_binary_result(msg)

\* '%s: %s' % (name, message): str(Binary) is its data, and the result is
\* unicode when the message is.
Colon == <<58, 32>>
NameAndMessage(type, message) ==
    TextV([u |-> message.tag = "text" /\ message.t.u,
           s |-> TypeName(type) \o Colon \o message.t.s])

\* 'Traceback (most recent call last):\n' + trace; the frame lines of trace
\* are left out.
_get_error_traceback(exc_tb) ==
    TextV(Str(<<84,114,97,99,101,98,97,99,107,32,40,109,111,115,116,32,114,101,99,
                101,110,116,32,99,97,108,108,32,108,97,115,116,41,58,10>>))

\* bool(getattr(exc_value, 'ROBOT_%s_ON_FAILURE' % name, False))
_get_error_attribute(exc_value, attr) ==
    BoolV(IF attr = "CONTINUE" THEN exc_value.cont ELSE exc_value.exit)

\* result[key] = value unless value equals default.
_add_to_result(res, key, value, default) ==
    IF ~PyEq(value, default)
    THEN [k \in DOMAIN res \cup {key} |-> IF k = key THEN value ELSE res[k]]
    ELSE res

\* The default of _add_to_result's default parameter: ''.
DefaultDefault == TextV(EmptyStr)

\* ---------------------------------------------------------- output capture
FreshSink == [buf |-> EmptyStr, closed |-> FALSE]
ClosedSink == [buf |-> EmptyStr, closed |-> TRUE]

\* a + b, unicode when either part is.
PyConcat(a, b) == [u |-> a.u \/ b.u, s |-> a.s \o b.s]

\* A StringIO that sys.stdout and sys.stderr no longer name is referenced by
\* nothing and is freed; its place in sinks holds no text.
Collect(ss, out, err) ==
    [j \in 1..Len(ss) |-> IF j \in {out, err} THEN ss[j] ELSE ClosedSink]

\* _intercept_std_streams that keeps sinks that are still installed.
InterceptKeepsInstalledSinks ==
    IF sys_stdout # 0 /\ sys_stderr # 0
    THEN [sinks |-> sinks, sys_stdout |-> sys_stdout, sys_stderr |-> sys_stderr]
    ELSE [sinks |-> Collect(sinks \o <<FreshSink, FreshSink>>,
                            Len(sinks) + 1, Len(sinks) + 2),
          sys_stdout |-> Len(sinks) + 1,
          sys_stderr |-> Len(sinks) + 2]

\* sys.stdout = StringIO(); sys.stderr = StringIO()
_intercept_std_streams ==
    [sinks |-> Collect(sinks \o <<FreshSink, FreshSink>>, Len(sinks) + 1, Len(sinks) + 2),
     sys_stdout |-> Len(sinks) + 1,
     sys_stderr |-> Len(sinks) + 2]

\* stream.getvalue(): the real streams have no getvalue, a closed StringIO
\* refuses it.
GetValue(stream) ==
    IF stream = 0 THEN Raise(Plain("AttributeError", EmptyStr))
    ELSE IF sinks[stream].closed THEN Raise(Plain("ValueError", EmptyStr))
    ELSE Ret(TextV(sinks[stream].buf))

\* CombineOutput with the newline added to stdout whether or not stderr holds
\* text.
CombineOutputNewlineAlways(stdout, stderr) ==
    LET o == IF stdout.s = <<>> \/ EndsWith(stdout.s, Newline)
             THEN stdout
             ELSE [u |-> stdout.u, s |-> stdout.s \o Newline]
        e == IF stdout.s = <<>> \/ stderr.s = <<>>
                \/ \E m \in LevelMarkers : StartsWith(stderr.s, m)
             THEN stderr
             ELSE [u |-> stderr.u, s |-> InfoPrefix \o stderr.s]
    IN PyConcat(o, e)

\* CombineOutput that puts the *INFO* marker before stderr whatever stderr
\* starts with.
CombineOutputInfoAlways(stdout, stderr) ==
    IF stdout.s # <<>> /\ stderr.s # <<>>
    THEN PyConcat([u |-> stdout.u,
                   s |-> IF EndsWith(stdout.s, Newline) THEN stdout.s
                         ELSE stdout.s \o Newline],
                  [u |-> stderr.u, s |-> InfoPrefix \o stderr.s])
    ELSE PyConcat(stdout, stderr)

\* The text _restore_std_streams builds from the two captured texts.
CombineOutput(stdout, stderr) ==
    IF stdout.s # <<>> /\ stderr.s # <<>>
    THEN LET e == IF \E m \in LevelMarkers : StartsWith(stderr.s, m)
                  THEN stderr
                  ELSE [u |-> stderr.u, s |-> InfoPrefix \o stderr.s]
             o == IF EndsWith(stdout.s, Newline)
                  THEN stdout
                  ELSE [u |-> stdout.u, s |-> stdout.s \o Newline]
         IN PyConcat(o, e)
    ELSE PyConcat(stdout, stderr)

\* _restore_std_streams that returns the text of stdout only.
RestoreOmitsStderr ==
    LET stdout == GetValue(sys_stdout)
        stderr == GetValue(sys_stderr)
        same == [out |-> stdout, sys_stdout |-> sys_stdout, sys_stderr |-> sys_stderr,
                 sinks |-> sinks]
    IN IF stdout.raised THEN same
       ELSE IF stderr.raised THEN [same EXCEPT !.out = stderr]
       ELSE [out |-> _handle_binary_result(stdout.v.t),
             sys_stdout |-> 0,
             sys_stderr |-> 0,
             sinks |-> [i \in 1..Len(sinks) |->
                          IF i \in {sys_stdout, sys_stderr} THEN ClosedSink ELSE sinks[i]]]

\* out is what the call returns or raises; the other fields are the streams
\* and sinks it leaves.
_restore_std_streams ==
    LET stdout == GetValue(sys_stdout)
        stderr == GetValue(sys_stderr)
        same == [out |-> stdout, sys_stdout |-> sys_stdout, sys_stderr |-> sys_stderr,
                 sinks |-> sinks]
    IN IF stdout.raised THEN same
       ELSE IF stderr.raised THEN [same EXCEPT !.out = stderr]
       ELSE [out |-> _handle_binary_result(CombineOutput(stdout.v.t, stderr.v.t)),
             sys_stdout |-> 0,
             sys_stderr |-> 0,
             sinks |-> [i \in 1..Len(sinks) |->
                          IF i \in {sys_stdout, sys_stderr} THEN ClosedSink ELSE sinks[i]]]

\* _get_error_message that does not look at ROBOT_SUPPRESS_NAME.
GetErrorMessageIgnoresSuppress(exc_type, exc_value) ==
    IF exc_type \in _fatal_exceptions
    THEN LET r == _restore_std_streams
         IN [r EXCEPT !.out = IF r.out.raised THEN r.out ELSE Raise(exc_value)]
    ELSE LET message == _get_message_from_exception(exc_value)
         IN [out |-> IF message.raised THEN message
                     ELSE IF message.v.tag = "text" /\ message.v.t.s = <<>>
                          THEN Ret(TextV(Str(TypeName(exc_type))))
                     ELSE IF exc_type \in _generic_exceptions
                          THEN Ret(message.v)
                     ELSE Ret(NameAndMessage(exc_type, message.v)),
             sys_stdout |-> sys_stdout,
             sys_stderr |-> sys_stderr,
             sinks |-> sinks]

\* _get_error_message that returns an empty message as it is.
GetErrorMessageNoNameFallback(exc_type, exc_value) ==
    IF exc_type \in _fatal_exceptions
    THEN LET r == _restore_std_streams
         IN [r EXCEPT !.out = IF r.out.raised THEN r.out ELSE Raise(exc_value)]
    ELSE LET message == _get_message_from_exception(exc_value)
         IN [out |-> IF message.raised THEN message
                     ELSE IF exc_type \in _generic_exceptions \/ exc_value.suppress
                          THEN Ret(message.v)
                     ELSE Ret(NameAndMessage(exc_type, message.v)),
             sys_stdout |-> sys_stdout,
             sys_stderr |-> sys_stderr,
             sinks |-> sinks]

\* out is the message returned or the condition raised; the other fields
\* are the streams and sinks the call leaves (a fatal condition restores
\* them before it is raised again, and a failing restore raises instead).
_get_error_message(exc_type, exc_value) ==
    IF exc_type \in _fatal_exceptions
    THEN LET r == _restore_std_streams
         IN [r EXCEPT !.out = IF r.out.raised THEN r.out ELSE Raise(exc_value)]
    ELSE LET message == _get_message_from_exception(exc_value)
         IN [out |-> IF message.raised THEN message
                     ELSE IF message.v.tag = "text" /\ message.v.t.s = <<>>
                          THEN Ret(TextV(Str(TypeName(exc_type))))
                     ELSE IF exc_type \in _generic_exceptions \/ exc_value.suppress
                          THEN Ret(message.v)
                     ELSE Ret(NameAndMessage(exc_type, message.v)),
             sys_stdout |-> sys_stdout,
             sys_stderr |-> sys_stderr,
             sinks |-> sinks]

\* ------------------------------------------------------------ collaborator
\* self._ldtp: the attributes dir() lists.  add, kw, hello, warn, echo and
\* wait are public functions, click is a public bound method, version is a
\* public attribute that is not a function, _hidden is a function whose name
\* starts with the internal marker.
LdtpAttrs == {"add", "kw", "version", "_hidden", "hello", "warn", "echo", "wait", "click"}
LdtpFunctions == {"add", "kw", "_hidden", "hello", "warn", "echo", "wait", "click"}
None == "None"

\* The characters of an attribute name.
AttrChars(attr) ==
    CASE attr = "add" -> <<97,100,100>>
      [] attr = "kw" -> <<107,119>>
      [] attr = "version" -> <<118,101,114,115,105,111,110>>
      [] attr = "_hidden" -> <<95,104,105,100,100,101,110>>
      [] attr = "hello" -> <<104,101,108,108,111>>
      [] attr = "warn" -> <<119,97,114,110>>
      [] attr = "echo" -> <<101,99,104,111>>
      [] attr = "wait" -> <<119,97,105,116>>
      [] attr = "click" -> <<99,108,105,99,107>>
      [] OTHER -> <<110,111,115,117,99,104>>

\* inspect.getargspec(kw) and inspect.ismethod(kw): the parameter names, the
\* default values of the last parameters, the names of the variadic
\* parameters (empty when there is none), and whether kw is a method.
ArgSpec(a, defaults, varargs, kwargs, ismethod) ==
    [args |-> a, defaults |-> defaults, varargs |-> varargs, kwargs |-> kwargs,
     ismethod |-> ismethod]
getargspec(kw) ==
    CASE kw = "add" -> ArgSpec(<< <<97>>, <<98>> >>, <<>>, <<>>, <<>>, FALSE)   \* add(a, b)
      [] kw = "kw" ->                                       \* kw(*args, **kwargs)
            ArgSpec(<<>>, <<>>, <<97,114,103,115>>, <<107,119,97,114,103,115>>, FALSE)
      [] kw = "echo" -> ArgSpec(<< <<118,97,108,117,101>> >>, <<>>, <<>>, <<>>, FALSE)
                                                            \* echo(value)
      [] kw = "wait" ->                                     \* wait(timeout=5)
            ArgSpec(<< <<116,105,109,101,111,117,116>> >>, <<IntV(5)>>, <<>>, <<>>, FALSE)
      [] kw = "click" ->                      \* click(self, window, obj='btn', *args)
            ArgSpec(<< <<115,101,108,102>>, <<119,105,110,100,111,119>>, <<111,98,106>> >>,
                    <<TextV(Str(<<98,116,110>>))>>, <<97,114,103,115>>, <<>>, TRUE)
      [] OTHER -> ArgSpec(<<>>, <<>>, <<>>, <<>>, FALSE)    \* hello(), warn(), _hidden()

\* inspect.isfunction(item) or inspect.ismethod(item)
_is_function_or_method(item) == item \in LdtpFunctions

\* getattr(self._ldtp, name, None), None again unless it is a function
_get_keyword(n) ==
    LET kw == IF n \in LdtpAttrs THEN n ELSE None
    IN IF ~_is_function_or_method(kw) THEN None ELSE kw

\* Calling None: TypeError: 'NoneType' object is not callable
NotCallable ==
    Plain("TypeError", Str(<<39,78,111,110,101,84,121,112,101,39,32,111,98,106,101,99,
                             116,32,105,115,32,110,111,116,32,99,97,108,108,97,98,108,101>>))

NoArgs == [args |-> <<>>, kwargs |-> <<>>]

\* get_keyword_names: the attributes whose name does not start with '_'.
get_keyword_names == {attr \in LdtpAttrs : AttrChars(attr)[1] # 95}

\* '%s' % d for a default value.
DefaultText(d) ==
    CASE d.tag = "int" -> IntText(d.n)
      [] d.tag = "none" -> <<78,111,110,101>>
      [] OTHER -> d.t.s

\* _arguments_from_kw with the receiver of a method kept in the list.
ArgumentsKeepSelf(kw) ==
    LET sig == getargspec(kw)
        nd == Len(sig.defaults)
        a2 == IF nd > 0
              THEN SubSeq(sig.args, 1, Len(sig.args) - nd)
                   \o [i \in 1..nd |-> sig.args[Len(sig.args) - nd + i] \o <<61>>
                                        \o DefaultText(sig.defaults[i])]
              ELSE sig.args
        a3 == IF sig.varargs # <<>> THEN Append(a2, <<42>> \o sig.varargs) ELSE a2
    IN IF sig.kwargs # <<>> THEN Append(a3, <<42, 42>> \o sig.kwargs) ELSE a3

\* The argument spec strings of a keyword: required names, 'name=default'
\* pairs, '*varargs', '**kwargs'.
_arguments_from_kw(kw) ==
    LET sig == getargspec(kw)
        a1 == IF sig.ismethod THEN Tail(sig.args) ELSE sig.args     \* drop 'self'
        nd == Len(sig.defaults)
        a2 == IF nd > 0
              THEN SubSeq(a1, 1, Len(a1) - nd)
                   \o [i \in 1..nd |-> a1[Len(a1) - nd + i] \o <<61>>
                                        \o DefaultText(sig.defaults[i])]
              ELSE a1
        a3 == IF sig.varargs # <<>> THEN Append(a2, <<42>> \o sig.varargs) ELSE a2
    IN IF sig.kwargs # <<>> THEN Append(a3, <<42, 42>> \o sig.kwargs) ELSE a3

\* get_keyword_arguments: [] for a name that does not resolve.
get_keyword_arguments(n) ==
    LET kw == _get_keyword(n)
    IN IF kw = None THEN <<>> ELSE _arguments_from_kw(kw)

\* ------------------------------------------------------------------ inputs
Hello == Str(<<104,101,108,108,111>>)           \* 'hello'
HiNl == Str(<<104,105,10>>)                     \* 'hi\n'
Err == Str(<<101,114,114>>)                     \* 'err'
WarnW == Str(<<42,87,65,82,78,42,32,119>>)      \* '*WARN* w'
Boom == Str(<<98,111,111,109>>)                 \* 'boom'
Bell == Str(<<97,7>>)                           \* 'a\x07': a control byte
Eacute == Str(<<233>>)                          \* '\xe9': a non-ASCII byte
Bad == Uni(<<97,7,233>>)                        \* u'a\x07\xe9': no str() and binary

\* What a keyword writes to standard output and to standard error.
Writes ==
    { <<EmptyStr, EmptyStr>>, <<Hello, EmptyStr>>, <<Hello, Err>>, <<HiNl, WarnW>>,
      <<EmptyStr, Err>>, <<Bell, EmptyStr>>, <<Bad, EmptyStr>>, <<Eacute, Err>> }

\* What a keyword returns.
Returns ==
    { NoneV, IntV(5), IntV(0), BoolV(FALSE), TextV(Hello), TextV(EmptyStr), TextV(Bell),
      TextV(Bad), TextV(Eacute),
      MapV(<<IntV(1)>>, <<TextV(Hello)>>),
      ListV(<<IntV(1), TextV(Bell)>>, NoExc),
      ObjV(Hello, NoExc), ObjV(Bell, NoExc), ObjV(Bad, NoExc),
      ObjV(EmptyStr, Plain("UnicodeDecodeError", Boom)),
      ListV(<<>>, Plain("KeyboardInterrupt", EmptyStr)),
      ListV(<<>>, Plain("Exception", Bad)),
      ListV(<<>>, Plain("ValueError", Boom)),
      ListV(<<IntV(1)>>, Exc("Exception", Boom, TRUE, TRUE, FALSE)) }

\* What a keyword raises.
Raises ==
    { Plain("RuntimeError", Boom), Plain("RuntimeError", EmptyStr),
      Exc("RuntimeError", Boom, TRUE, FALSE, FALSE),
      Exc("RuntimeError", Boom, FALSE, TRUE, FALSE),
      Exc("NotImplementedError", Boom, TRUE, TRUE, TRUE),
      Plain("NotImplementedError", Boom),
      Plain("RuntimeError", Bad), Plain("RuntimeError", Bell), Plain("RuntimeError", Eacute),
      Exc("AssertionError", Boom, TRUE, FALSE, FALSE),
      Plain("Exception", Boom), Plain("ValueError", Boom),
      Plain("SystemExit", EmptyStr), Plain("KeyboardInterrupt", EmptyStr) }

\* The names, positional and named arguments run_keyword is called with.
Names == LdtpAttrs \cup {"nosuch"}
ArgLists == { <<>>, <<IntV(2), IntV(3)>>, <<BinaryV(<<97,7>>)>>, <<TextV(Hello)>> }
KwargLists == { <<>>, <<[k |-> "x", v |-> BinaryV(<<97,7>>)]>> }

\* One run of a keyword: what it writes and how it ends.
Run(out, err, res) == [out |-> out, err |-> err, res |-> res]

\* Whether a call with these arguments matches the signature: enough
\* positional arguments, no more than the parameters unless *args takes
\* them, and named arguments (none of which names a parameter here) only
\* with **kwargs.
ArgsOk(kw, a) ==
    LET sig == getargspec(kw)
        params == Len(sig.args) - (IF sig.ismethod THEN 1 ELSE 0)
    IN /\ Len(a.args) >= params - Len(sig.defaults)
       /\ sig.varargs # <<>> \/ Len(a.args) <= params
       /\ sig.kwargs # <<>> \/ a.kwargs = <<>>

\* A call the signature rejects raises TypeError.  add(a, b) returns a + b;
\* hello() prints 'hello'; warn() prints 'hello' and writes 'err' to
\* sys.stderr; echo(value) returns value; wait and click return
\* 1; _hidden() does nothing; kw(*args, **kwargs) stands for any keyword: it
\* may write anything and end in any way.
KeywordRuns(kw, a) ==
    IF ~ArgsOk(kw, a) THEN {Run(EmptyStr, EmptyStr, Raise(Plain("TypeError", Boom)))}
    ELSE CASE kw = "add" ->
                IF \A i \in 1..2 : a.args[i].tag = "int"
                THEN {Run(EmptyStr, EmptyStr, Ret(IntV(a.args[1].n + a.args[2].n)))}
                ELSE {Run(EmptyStr, EmptyStr, Raise(Plain("TypeError", Boom)))}
           [] kw = "hello" -> {Run(Hello, EmptyStr, Ret(NoneV))}
           [] kw = "warn" -> {Run(Hello, Err, Ret(NoneV))}
           [] kw = "echo" -> {Run(EmptyStr, EmptyStr, Ret(a.args[1]))}
           [] kw \in {"wait", "click"} -> {Run(EmptyStr, EmptyStr, Ret(IntV(1)))}
           [] kw = "_hidden" -> {Run(EmptyStr, EmptyStr, Ret(NoneV))}
           [] OTHER ->
                {Run(w[1], w[2], Ret(v)) : w \in Writes, v \in Returns}
                \cup {Run(w[1], w[2], Raise(x)) : w \in Writes, x \in Raises}

\* stream.write(text): the real streams keep nothing here.
Write(ss, stream, text) ==
    IF stream = 0 \/ text.s = <<>> THEN ss
    ELSE [ss EXCEPT ![stream].buf = PyConcat(@, text)]

\* level.upper()
Upper(s) == [i \in 1..Len(s) |-> IF s[i] \in 97..122 THEN s[i] - 32 ELSE s[i]]

\* The levels and messages _log is called with; no level is ''.
Levels == { <<>>, <<119,97,114,110>> }              \* None, 'warn'
LogMessages == { Hello }

\* _write_to_stream: stream.write(msg + '\n'); the real stream (0) keeps no
\* text.
_write_to_stream(ss, msg, stream) ==
    Write(ss, stream, [u |-> msg.u, s |-> msg.s \o Newline])

\* _log: the sinks after msg, with '*LEVEL* ' before it if a level is given,
\* is written to sys.stdout and, if that is another stream, to
\* sys.__stdout__.
_log(msg, level) ==
    LET m == IF level # <<>>
             THEN [u |-> msg.u, s |-> <<42>> \o Upper(level) \o <<42, 32>> \o msg.s]
             ELSE msg
        s1 == _write_to_stream(sinks, m, sys_stdout)
    IN IF sys_stdout # 0 THEN _write_to_stream(s1, m, 0) ELSE s1

\* ----------------------------------------------------------------- actions
\* The locals of a thread that has not called run_keyword yet.
IdleLocals ==
    [pc |-> "idle", name |-> "", args |-> NoArgs, result |-> [status |-> "FAIL"],
     return_value |-> NoneV, exc |-> NoExc, prior |-> <<0, 0>>,
     wrote |-> <<EmptyStr, EmptyStr>>, returned |-> FALSE, given |-> NoArgs,
     stale |-> FALSE, overlap |-> FALSE]

\* A thread is inside run_keyword.
Active(p) == p \in {"invoke", "raised", "returned", "release"}

NoReply == [op |-> "", arg |-> "", names |-> {}, spec |-> <<>>]

Init ==
    /\ platform \in {"linux2", "cli"}
    /\ sys_stdout = 0
    /\ sys_stderr = 0
    /\ sinks = <<>>
    /\ pc = "idle"
    /\ name = ""
    /\ args = NoArgs
    /\ result = [status |-> "FAIL"]
    /\ return_value = NoneV
    /\ exc = NoExc
    /\ ncalls = 0
    /\ prior = <<0, 0>>
    /\ wrote = <<EmptyStr, EmptyStr>>
    /\ returned = FALSE
    /\ given = NoArgs
    /\ stale = FALSE
    /\ overlap = FALSE
    /\ other = IdleLocals
    /\ reply = NoReply
    /\ nlogs = 0

\* run_keyword, lines 58-61: marshal the arguments, start the envelope,
\* install the sinks.
Call(n, a, k) ==
    /\ pc \in {"idle", "done", "propagated"}
    /\ ncalls < MaxCalls
    /\ LET i == _intercept_std_streams
       IN /\ sinks' = i.sinks
          /\ sys_stdout' = i.sys_stdout
          /\ sys_stderr' = i.sys_stderr
    /\ name' = n
    /\ args' = _handle_binary_args(a, k)
    /\ result' = [status |-> "FAIL"]
    /\ return_value' = NoneV
    /\ exc' = NoExc
    /\ ncalls' = ncalls + 1
    /\ prior' = <<sys_stdout, sys_stderr>>
    /\ wrote' = <<EmptyStr, EmptyStr>>
    /\ returned' = FALSE
    /\ given' = [args |-> a, kwargs |-> k]
    /\ stale' = (sys_stdout # 0 /\ sinks[sys_stdout].buf.s # <<>>)
    /\ overlap' = Active(other.pc)
    /\ other' = [other EXCEPT !.overlap = @ \/ Active(other.pc)]
    /\ reply' = NoReply
    /\ nlogs' = 0
    /\ pc' = "invoke"
    /\ UNCHANGED platform

\* run_keyword, line 63: resolve the keyword and call it.  The arguments are
\* not read after the call.
Invoke ==
    /\ pc = "invoke"
    /\ LET kw == _get_keyword(name)
       IN IF kw = None
          THEN /\ exc' = NotCallable
               /\ pc' = "raised"
               /\ UNCHANGED <<sinks, wrote, return_value, returned>>
          ELSE \E b \in KeywordRuns(kw, args) :
                  /\ sinks' = Write(Write(sinks, sys_stdout, b.out), sys_stderr, b.err)
                  /\ wrote' = <<b.out, b.err>>
                  /\ IF b.res.raised
                     THEN /\ exc' = b.res.x
                          /\ pc' = "raised"
                          /\ UNCHANGED <<return_value, returned>>
                     ELSE /\ return_value' = b.res.v
                          /\ returned' = TRUE
                          /\ pc' = "returned"
                          /\ UNCHANGED exc
    /\ args' = NoArgs
    /\ given' = NoArgs
    /\ UNCHANGED <<platform, sys_stdout, sys_stderr, name, result, ncalls, prior,
                   stale, overlap, other, reply, nlogs>>

\* run_keyword, lines 64-75: the clause `except RuntimeError:`.  A condition
\* it does not match leaves run_keyword as it is.
Except ==
    /\ pc = "raised"
    /\ IF ~IsRuntimeError(exc.type)
       THEN /\ pc' = "propagated"
            /\ UNCHANGED <<sys_stdout, sys_stderr, sinks, result, exc>>
       ELSE LET m == _get_error_message(exc.type, exc)
            IN /\ sys_stdout' = m.sys_stdout
               /\ sys_stderr' = m.sys_stderr
               /\ sinks' = m.sinks
               /\ IF m.out.raised
                  THEN /\ exc' = m.out.x
                       /\ pc' = "propagated"
                       /\ UNCHANGED result
                  ELSE /\ result' =
                            _add_to_result(
                              _add_to_result(
                                _add_to_result(
                                  _add_to_result(result, "error", m.out.v, DefaultDefault),
                                  "traceback", _get_error_traceback(exc), DefaultDefault),
                                "continuable", _get_error_attribute(exc, "CONTINUE"),
                                DefaultDefault),
                              "fatal", _get_error_attribute(exc, "EXIT"), DefaultDefault)
                       /\ pc' = "release"
                       /\ UNCHANGED exc
    /\ UNCHANGED <<platform, name, args, return_value, ncalls, prior, wrote, returned,
                   given, stale, overlap, other, reply, nlogs>>

\* Marshal with the status set to PASS before the return value is marshalled.
MarshalPassEarly ==
    /\ pc = "returned"
    /\ LET r == _handle_return_value(return_value)
           passed == [result EXCEPT !["status"] = "PASS"]
       IN IF ~r.raised
          THEN /\ result' = _add_to_result(passed, "return", r.v, DefaultDefault)
               /\ pc' = "release"
               /\ UNCHANGED <<sys_stdout, sys_stderr, sinks, exc>>
          ELSE LET m == _get_error_message(r.x.type, r.x)
               IN /\ sys_stdout' = m.sys_stdout
                  /\ sys_stderr' = m.sys_stderr
                  /\ sinks' = m.sinks
                  /\ IF m.out.raised
                     THEN /\ exc' = m.out.x
                          /\ pc' = "propagated"
                          /\ UNCHANGED result
                     ELSE /\ exc' = r.x
                          /\ result' = _add_to_result(passed, "error", m.out.v, DefaultDefault)
                          /\ pc' = "release"
    /\ UNCHANGED <<platform, name, args, return_value, ncalls, prior, wrote, returned,
                   given, stale, overlap, other, reply, nlogs>>

\* run_keyword, lines 76-85: marshal the return value; the bare `except:`
\* turns a failure into the error field.
Marshal ==
    /\ pc = "returned"
    /\ LET r == _handle_return_value(return_value)
       IN IF ~r.raised
          THEN /\ result' = [_add_to_result(result, "return", r.v, DefaultDefault)
                               EXCEPT !["status"] = "PASS"]
               /\ pc' = "release"
               /\ UNCHANGED <<sys_stdout, sys_stderr, sinks, exc>>
          ELSE LET m == _get_error_message(r.x.type, r.x)
               IN /\ sys_stdout' = m.sys_stdout
                  /\ sys_stderr' = m.sys_stderr
                  /\ sinks' = m.sinks
                  /\ IF m.out.raised
                     THEN /\ exc' = m.out.x
                          /\ pc' = "propagated"
                          /\ UNCHANGED result
                     ELSE /\ exc' = r.x
                          /\ result' = _add_to_result(result, "error", m.out.v, DefaultDefault)
                          /\ pc' = "release"
    /\ UNCHANGED <<platform, name, args, return_value, ncalls, prior, wrote, returned,
                   given, stale, overlap, other, reply, nlogs>>

\* run_keyword, lines 86-87: restore the streams, attach the output, return.
Release ==
    /\ pc = "release"
    /\ LET r == _restore_std_streams
       IN /\ sys_stdout' = r.sys_stdout
          /\ sys_stderr' = r.sys_stderr
          /\ sinks' = r.sinks
          /\ IF r.out.raised
             THEN /\ exc' = r.out.x
                  /\ pc' = "propagated"
                  /\ UNCHANGED result
             ELSE /\ result' = _add_to_result(result, "output", r.out.v, DefaultDefault)
                  /\ pc' = "done"
                  /\ UNCHANGED exc
    /\ UNCHANGED <<platform, name, args, return_value, ncalls, prior, wrote, returned,
                   given, stale, overlap, other, reply, nlogs>>

\* A discovery call, made while no run_keyword call is running.  What it
\* returns does not depend on the state, and the calls after the last
\* run_keyword call are left out.
GetKeywordNames ==
    /\ ~Active(pc)
    /\ ncalls < MaxCalls
    /\ reply' = [op |-> "names", arg |-> "", names |-> get_keyword_names, spec |-> <<>>]
    /\ UNCHANGED <<platform, sys_stdout, sys_stderr, sinks, pc, name, args, result,
                   return_value, exc, ncalls, prior, wrote, returned, given, stale, overlap,
                   other, nlogs>>

GetKeywordArguments(n) ==
    /\ ~Active(pc)
    /\ ncalls < MaxCalls
    /\ reply' = [op |-> "arguments", arg |-> n, names |-> {},
                 spec |-> get_keyword_arguments(n)]
    /\ UNCHANGED <<platform, sys_stdout, sys_stderr, sinks, pc, name, args, result,
                   return_value, exc, ncalls, prior, wrote, returned, given, stale, overlap,
                   other, nlogs>>

\* A _log call, made while no run_keyword call is running; the calls after
\* the last run_keyword call are left out.
Log(msg, level) ==
    /\ ~Active(pc)
    /\ ncalls < MaxCalls
    /\ nlogs < MaxLogs
    /\ sinks' = _log(msg, level)
    /\ nlogs' = nlogs + 1
    /\ UNCHANGED <<platform, sys_stdout, sys_stderr, pc, name, args, result,
                   return_value, exc, ncalls, prior, wrote, returned, given, stale, overlap,
                   other, reply>>

Next ==
    \/ \E n \in Names, a \in ArgLists, k \in KwargLists : Call(n, a, k)
    \/ Invoke
    \/ Except
    \/ Marshal
    \/ Release
    \/ GetKeywordNames
    \/ \E n \in Names : GetKeywordArguments(n)
    \/ \E msg \in LogMessages, level \in Levels : Log(msg, level)

Spec == Init /\ [][Next]_vars

\* Two threads call run_keyword on one instance in one process: the
\* interpreter stops the running thread between two steps of its call and
\* runs the other one.  sys.stdout, sys.stderr and the sinks are the
\* process's; everything else is the running thread's.
Switch ==
    /\ other' = [pc |-> pc, name |-> name, args |-> args, result |-> result,
                 return_value |-> return_value, exc |-> exc, prior |-> prior,
                 wrote |-> wrote, returned |-> returned, given |-> given,
                 stale |-> stale, overlap |-> overlap]
    /\ pc' = other.pc
    /\ name' = other.name
    /\ args' = other.args
    /\ result' = other.result
    /\ return_value' = other.return_value
    /\ exc' = other.exc
    /\ prior' = other.prior
    /\ wrote' = other.wrote
    /\ returned' = other.returned
    /\ given' = other.given
    /\ stale' = other.stale
    /\ overlap' = other.overlap
    /\ UNCHANGED <<platform, sys_stdout, sys_stderr, sinks, ncalls, reply, nlogs>>

\* The keywords the two threads call.
ConcNames == {"hello", "warn", "nosuch"}

NextConc ==
    \/ \E n \in ConcNames : Call(n, <<>>, <<>>)
    \/ Invoke
    \/ Except
    \/ Marshal
    \/ Release
    \/ Switch

SpecConc == Init /\ [][NextConc]_vars

\* ------------------------------------------------------------------ claims
\* A run_keyword call has ended: it returned its envelope (done) or a
\* condition left it (propagated).
Ended == pc \in {"done", "propagated"}
Has(key) == key \in DOMAIN result
IsTrue(key) == Has(key) /\ result[key] = BoolV(TRUE)
StreamsRestored == sys_stdout = 0 /\ sys_stderr = 0
Printable(s) == ~BINARY(s) /\ ~NON_ASCII(s)

\* C1: within one run_keyword call the capture is open while the keyword is
\* invoked, and whenever the call has ended (envelope returned or condition
\* propagated) the capture sinks are no longer the process streams.
C1_CaptureAlwaysReleased ==
    /\ pc = "invoke" =>
          /\ sys_stdout > 0 /\ ~sinks[sys_stdout].closed
          /\ sys_stderr > 0 /\ ~sinks[sys_stderr].closed
    /\ Ended => StreamsRestored

\* C2: a call that has ended either returned a well-formed envelope or
\* propagated a fatal condition (SystemExit, KeyboardInterrupt); no other
\* condition crosses run_keyword.
C2_OnlyFatalPropagates ==
    /\ pc = "propagated" => exc.type \in _fatal_exceptions
    /\ pc = "done" => result["status"] \in {"PASS", "FAIL"}

\* C3: when the keyword raised SystemExit or KeyboardInterrupt, no envelope
\* is returned and the streams are restored by the time the condition has
\* propagated.
C3_FatalRestoresThenPropagates ==
    (ncalls > 0 /\ ~returned /\ exc.type \in _fatal_exceptions) =>
        /\ pc \in {"raised", "propagated"}
        /\ pc = "propagated" => StreamsRestored

\* C4: a call whose name does not resolve ends by returning an envelope with
\* status FAIL and an error, with the capture released.
C4_UnresolvedNameFails ==
    (ncalls > 0 /\ _get_keyword(name) = None /\ Ended) =>
        /\ pc = "done"
        /\ result["status"] = "FAIL"
        /\ Has("error")
        /\ StreamsRestored

\* C5: whenever a call has ended, standard output and standard error are the
\* streams that were installed when the call began.
C5_PriorStreamsRestored ==
    Ended => <<sys_stdout, sys_stderr>> = prior

\* C6: in a returned envelope continuable and fatal are present only when
\* true, output only when non-empty, error only on a failure; add(2, 3)
\* writing nothing yields exactly {status: PASS, return: 5}; a failure
\* without markers has no continuable and no fatal field.
C6_FieldsOnlyWhenNotDefault ==
    pc = "done" =>
        /\ Has("continuable") => result["continuable"] = BoolV(TRUE)
        /\ Has("fatal") => result["fatal"] = BoolV(TRUE)
        /\ Has("output") => result["output"].t.s # <<>>
        /\ Has("error") => result["status"] = "FAIL"
        /\ (name = "add" /\ returned /\ return_value = IntV(5)) =>
              result = [status |-> "PASS", return |-> IntV(5)]
        /\ (result["status"] = "FAIL" /\ ~exc.cont /\ ~exc.exit) =>
              ~Has("continuable") /\ ~Has("fatal")

\* C7: a call whose keyword raised a non-fatal condition ends with an
\* envelope of status FAIL, continuable true exactly when the condition
\* carries ROBOT_CONTINUE_ON_FAILURE and fatal true exactly when it carries
\* ROBOT_EXIT_ON_FAILURE.
C7_FailureFlagsFollowMarkers ==
    (Ended /\ ~returned /\ exc # NoExc /\ exc.type \notin _fatal_exceptions) =>
        /\ pc = "done"
        /\ result["status"] = "FAIL"
        /\ IsTrue("continuable") <=> exc.cont
        /\ IsTrue("fatal") <=> exc.exit

\* C8: a returned envelope has status PASS exactly when the keyword returned
\* normally and its return value was marshalled; every other returned
\* envelope has status FAIL; a PASS envelope has no error, traceback,
\* continuable or fatal field.
C8_PassOnlyAfterMarshalling ==
    pc = "done" =>
        /\ result["status"] \in {"PASS", "FAIL"}
        /\ result["status"] = "PASS" <=>
              (returned /\ exc = NoExc /\ ~_handle_return_value(return_value).raised)
        /\ result["status"] = "PASS" =>
              DOMAIN result \cap {"error", "traceback", "continuable", "fatal"} = {}

\* A returned PASS envelope carrying the marshalled return value 5.
C8_Witness ==
    /\ pc = "done"
    /\ result["status"] = "PASS"
    /\ Has("return")
    /\ return_value = IntV(5)

\* C9: when the keyword returned and marshalling its return value raised a
\* non-fatal condition, the call ends with an envelope of status FAIL with
\* an error and no return, traceback, continuable or fatal field, the
\* streams restored and the captured text attached.
C9_MarshallingFailureEnvelope ==
    (Ended /\ returned
       /\ _handle_return_value(return_value).raised
       /\ _handle_return_value(return_value).x.type \notin _fatal_exceptions) =>
        /\ pc = "done"
        /\ result["status"] = "FAIL"
        /\ Has("error")
        /\ DOMAIN result \cap {"return", "traceback", "continuable", "fatal"} = {}
        /\ StreamsRestored
        /\ (wrote[1].s # <<>> \/ wrote[2].s # <<>>) => Has("output")

\* C10 as stated: a keyword that wrote text without a trailing newline (such
\* as 'hello') to standard output, nothing to standard error, and returned
\* yields status PASS and output equal to the text followed by a newline.
C10_NewlineAppended ==
    (pc = "done" /\ returned /\ ~_handle_return_value(return_value).raised
       /\ wrote[1].s # <<>> /\ Printable(wrote[1].s) /\ ~EndsWith(wrote[1].s, Newline)
       /\ wrote[2].s = <<>>) =>
        /\ result["status"] = "PASS"
        /\ Has("output")
        /\ result["output"].t.s = wrote[1].s \o Newline

\* C10 amended: a keyword that wrote printable ASCII text without a trailing
\* newline to standard output, nothing to standard error, and returned a
\* value that marshals ends with an envelope of status PASS whose output is
\* that text unchanged.
C10_OutputUnchanged ==
    (Ended /\ returned /\ ~_handle_return_value(return_value).raised
       /\ wrote[1].s # <<>> /\ Printable(wrote[1].s) /\ ~EndsWith(wrote[1].s, Newline)
       /\ wrote[2].s = <<>>) =>
        /\ pc = "done"
        /\ result["status"] = "PASS"
        /\ Has("output")
        /\ result["output"] = TextV(wrote[1])

\* 'hello' written to standard output alone comes back as 'hello'.
C10_Witness ==
    /\ pc = "done"
    /\ wrote = <<Hello, EmptyStr>>
    /\ result["status"] = "PASS"
    /\ Has("output")
    /\ result["output"] = TextV(Hello)

\* The text a call's keyword wrote, as _restore_std_streams combines it.
OwnText == CombineOutput(wrote[1], wrote[2]).s

\* C11: whenever the keyword of a call wrote non-empty text to standard
\* output or standard error and neither it nor the marshalling of its return
\* value raised a fatal condition, the call ends with an envelope (PASS or
\* FAIL) whose output field holds the captured text.
C11_OutputAlwaysAttached ==
    LET h == _handle_return_value(return_value)
        fatal == \/ ~returned /\ exc.type \in _fatal_exceptions
                 \/ returned /\ h.raised /\ h.x.type \in _fatal_exceptions
    IN (Ended /\ (wrote[1].s # <<>> \/ wrote[2].s # <<>>) /\ ~fatal) =>
          /\ pc = "done"
          /\ Has("output")
          /\ result["output"].t.s = OwnText

\* C12: every name get_keyword_names returns does not begin with '_' and
\* names a function or method of the collaborator, that is, it resolves
\* through _get_keyword to a keyword run_keyword can invoke.
C12_NamesAreKeywords ==
    reply.op = "names" =>
        \A n \in reply.names : /\ AttrChars(n)[1] # 95
                               /\ _is_function_or_method(n)
                               /\ _get_keyword(n) # None

\* C13: for a resolvable keyword with N required and M defaulted parameters
\* (the receiver of a bound method not counted), get_keyword_arguments
\* returns N bare names, then M 'name=default' pairs in declaration order,
\* then '*varargs' if any, then '**kwargs' if any, and nothing else.
C13_ArgumentSpecShape ==
    (reply.op = "arguments" /\ _get_keyword(reply.arg) # None) =>
        LET sig == getargspec(reply.arg)
            skip == IF sig.ismethod THEN 1 ELSE 0
            M == Len(sig.defaults)
            N == Len(sig.args) - skip - M
            va == IF sig.varargs # <<>> THEN 1 ELSE 0
            ka == IF sig.kwargs # <<>> THEN 1 ELSE 0
        IN /\ Len(reply.spec) = N + M + va + ka
           /\ \A i \in 1..N : reply.spec[i] = sig.args[skip + i]
           /\ \A i \in 1..M :
                 reply.spec[N + i] = sig.args[skip + N + i] \o <<61>>
                                     \o DefaultText(sig.defaults[i])
           /\ va = 1 => reply.spec[N + M + 1] = <<42>> \o sig.varargs
           /\ ka = 1 => reply.spec[N + M + va + 1] = <<42, 42>> \o sig.kwargs

\* get_keyword_arguments('click') returned ['window', 'obj=btn', '*args'].
C13_Witness ==
    /\ reply.op = "arguments"
    /\ reply.arg = "click"
    /\ reply.spec = << <<119,105,110,100,111,119>>, <<111,98,106,61,98,116,110>>,
                       <<42,97,114,103,115>> >>

\* C14: a returned text of printable ASCII only is marshalled unchanged as
\* text; returned bytes with a control byte are wrapped as a Binary, and
\* _handle_binary_arg of that Binary is the original bytes; run_keyword hands
\* the keyword the data of each Binary argument and every other argument
\* unchanged.
C14_BinaryRoundTrip ==
    /\ (pc \in {"release", "done"} /\ returned /\ return_value.tag = "text") =>
          /\ Printable(return_value.t.s) =>
                /\ result["status"] = "PASS"
                /\ return_value.t.s # <<>> =>
                      Has("return") /\ result["return"] = return_value
          /\ (~return_value.t.u /\ BINARY(return_value.t.s)) =>
                /\ result["status"] = "PASS"
                /\ Has("return")
                /\ result["return"].tag = "binary"
                /\ _handle_binary_arg(result["return"]) = return_value
    /\ pc = "invoke" =>
          /\ Len(args.args) = Len(given.args)
          /\ Len(args.kwargs) = Len(given.kwargs)
          /\ \A i \in 1..Len(given.args) :
                IF given.args[i].tag = "binary"
                THEN args.args[i] = TextV(given.args[i].t)
                ELSE args.args[i] = given.args[i]
          /\ \A i \in 1..Len(given.kwargs) :
                /\ args.kwargs[i].k = given.kwargs[i].k
                /\ IF given.kwargs[i].v.tag = "binary"
                   THEN args.kwargs[i].v = TextV(given.kwargs[i].v.t)
                   ELSE args.kwargs[i].v = given.kwargs[i].v

\* echo was called with Binary('a\x07'), received and returned the bytes
\* 'a\x07', and the envelope carries them as Binary('a\x07') again.
C14_Witness ==
    /\ pc = "done"
    /\ name = "echo"
    /\ return_value = TextV(Bell)
    /\ Has("return")
    /\ result["return"] = BinaryV(Bell.s)

\* A returned value that is no text, number, mapping or iterable.
OtherValue == returned /\ return_value.tag \in {"none", "obj"}

C17_OutputFormat ==
    pc = "done" =>
        LET o == wrote[1].s
            e == wrote[2].s
            marked == \E m \in {<<42,84,82,65,67,69,42>>, <<42,68,69,66,85,71,42>>,
                                <<42,73,78,70,79,42>>, <<42,72,84,77,76,42>>,
                                <<42,87,65,82,78,42>>} :
                         Len(e) >= Len(m) /\ SubSeq(e, 1, Len(m)) = m
            expected == IF o # <<>> /\ e # <<>>
                        THEN o \o (IF o[Len(o)] = 10 THEN <<>> ELSE <<10>>)
                               \o (IF marked THEN <<>> ELSE <<42,73,78,70,79,42,32>>) \o e
                        ELSE o \o e
        IN IF expected = <<>> THEN ~Has("output")
           ELSE Has("output") /\ result["output"].t.s = expected

\* Both rules applied at once: stdout 'hello' got its newline and stderr
\* 'err' its marker.
C17_Witness ==
    /\ pc = "done"
    /\ wrote = <<Hello, Err>>
    /\ result["output"].t.s = Hello.s \o <<10>> \o InfoPrefix \o Err.s

\* C18: the error of an envelope is the text of the condition if it has
\* one, else the name of its kind; a text is used bare when the kind is
\* exactly AssertionError, RuntimeError or Exception or the condition
\* carries ROBOT_SUPPRESS_NAME, and is otherwise written '<Kind>: <text>'.
C18_ErrorMessageClassification ==
    (pc \in {"release", "done"} /\ Has("error")) =>
        LET text == exc.msg.s
            bare == \/ exc.type \in {"AssertionError", "RuntimeError", "Exception"}
                    \/ exc.suppress
        IN result["error"].t.s =
              IF text = <<>> THEN TypeName(exc.type)
              ELSE IF bare THEN text
              ELSE TypeName(exc.type) \o <<58, 32>> \o text

\* A keyword raised NotImplementedError('boom') and the envelope's error is
\* 'NotImplementedError: boom'.
C18_Witness ==
    /\ pc = "done"
    /\ exc = Plain("NotImplementedError", Boom)
    /\ Has("error")
    /\ result["error"].t.s = TypeName("NotImplementedError") \o Colon \o Boom.s

\* C20: every envelope run_keyword returns with status FAIL has an error
\* field, and the error is not empty, whether the keyword raised or the
\* marshalling of its return value did.
C20_FailHasError ==
    (pc = "done" /\ result["status"] = "FAIL") =>
        /\ Has("error")
        /\ result["error"].t.s # <<>>

\* A keyword raised RuntimeError() with no text and the envelope's error is
\* the name of the kind.
C20_Witness ==
    /\ pc = "done"
    /\ ~returned
    /\ exc = Plain("RuntimeError", EmptyStr)
    /\ result["status"] = "FAIL"
    /\ Has("error")
    /\ result["error"] = TextV(Str(TypeName("RuntimeError")))

\* C19: a call begins its capture with two fresh empty sinks, and the
\* output of the envelope it returns is the text its own keyword wrote and
\* nothing else, whatever earlier calls or writes between calls left.
C19_OutputIsolated ==
    /\ pc = "invoke" =>
          /\ sys_stdout # sys_stderr
          /\ sys_stdout \notin {0, prior[1], prior[2]}
          /\ sys_stderr \notin {0, prior[1], prior[2]}
          /\ sinks[sys_stdout] = [buf |-> EmptyStr, closed |-> FALSE]
          /\ sinks[sys_stderr] = [buf |-> EmptyStr, closed |-> FALSE]
    /\ pc = "done" =>
          IF OwnText = <<>> THEN ~Has("output")
          ELSE Has("output") /\ result["output"].t.s = OwnText

\* A call that began while the sink an earlier call left installed held
\* text, and whose envelope has its own output only.
C19_Witness ==
    /\ pc = "done"
    /\ ncalls = 2
    /\ prior[1] # 0
    /\ stale
    /\ wrote[1] = Hello
    /\ result["output"] = TextV(Hello)

\* C16: a call that no other call overlapped returns an envelope whose
\* output is exactly the text its own keyword wrote, also when the process
\* runs two threads.
C16_SerializedOutputExact ==
    (pc = "done" /\ ~overlap) =>
        IF OwnText = <<>> THEN ~Has("output")
        ELSE Has("output") /\ result["output"].t.s = OwnText

\* C16: two calls overlapped and one of them returned an envelope whose
\* output is not what its own keyword wrote: hello wrote 'hello' and the
\* envelope holds other text.
C16_Witness ==
    /\ pc = "done"
    /\ overlap
    /\ name = "hello"
    /\ wrote[1] = Hello
    /\ Has("output")
    /\ result["output"].t.s # OwnText

====
